---- MODULE Spec2Model ----
(***************************************************************************)
(* Model of the macOS FsEvents decoder: the flag decoder, the header       *)
(* parser, the record decoder, the stream walker (src/src/fsevents.rs),    *)
(* the size guard (src/src/size.rs) and the batch aggregator               *)
(* (src/src/parser.rs).                                                    *)
(*                                                                         *)
(* Buffers are sequences of bytes (0..255).  Strings are sequences of      *)
(* bytes too; a flag text is the sequence of the pieces join(",") writes.  *)
(* Numbers are TLC integers, so every decoded value of the inputs chosen   *)
(* here is below 2^31; the one value that is not, the wrapped block        *)
(* length, is kept as two 16-bit limbs.                                    *)
(***************************************************************************)
EXTENDS Integers, Sequences, FiniteSets, TLC

VARIABLES
    dir_ok,          \* the journal directory can be listed
    fsevents_files,  \* parse_fseventsd_data: the files fseventsd() lists
    file_idx,        \* parse_fseventsd_data: position of the for loop
    fsevents_data,   \* parse_fseventsd_data: the records collected so far
    batch_result,    \* what parse_fseventsd_data returned: "none", "Ok", "Err"
    logged,          \* files reported with error!(...)
    decompressed,    \* files decompress() returned a buffer for
    pc,              \* position in the program
    input,           \* fsevents_data: the buffer not yet walked
    total_fsevents,  \* fsevents_data: records of the blocks decoded so far
    block_len,       \* fsevents_data: the count handed to take(), as limbs
    stream_input,    \* fsevents_data: the buffer after the current block
    sig,             \* get_fsevent: signature of the current block
    input_results,   \* get_fsevent: the block bytes not yet decoded
    fsevents_array,  \* get_fsevent: records of the current block
    used,            \* get_fsevent_data: bytes the last record decode consumed
    result,          \* what fsevents_data returned: "none", "Ok", "Err"
    flags_in,        \* match_flags: the flag word handed in
    flags_out        \* match_flags: the list returned and its joined text

vars == <<dir_ok, fsevents_files, file_idx, fsevents_data,
          batch_result, logged, decompressed, pc, input, total_fsevents,
          block_len, stream_input, sig, input_results, fsevents_array, used,
          result, flags_in, flags_out>>

----------------------------------------------------------------------------
(* Program constants *)

DISKLOGGERV2 == 1145852722
DISKLOGGERV1 == 1145852721
header_size == 12
Slash == 47
Limb == 2^16

\* max_size = 2147483648 = 32768 * 65536, as <<high limbs, low limb>>
max_size == <<32768, 0>>

----------------------------------------------------------------------------
(* Bytes and little-endian numbers *)

Take(s, n) == SubSeq(s, 1, n)
Drop(s, n) == SubSeq(s, n + 1, Len(s))

RECURSIVE le_uint(_)
\* nom le_u32 / le_u64: the first byte is the least significant
le_uint(bytes) ==
    IF bytes = <<>> THEN 0 ELSE Head(bytes) + 256 * le_uint(Tail(bytes))

RECURSIVE BitAnd(_, _)
\* flags & mask on unsigned values
BitAnd(a, b) ==
    IF a = 0 \/ b = 0 THEN 0
    ELSE (a % 2) * (b % 2) + 2 * BitAnd(a \div 2, b \div 2)

\* u32 subtraction a - b as the build computes it: [overflow, hi, lo] where
\* the 32-bit result is hi * 65536 + lo (wrapped modulo 2^32 on overflow)
WrappingSub(a, b) ==
    IF a >= b
    THEN [overflow |-> FALSE, hi |-> (a - b) \div Limb, lo |-> (a - b) % Limb]
    ELSE [overflow |-> TRUE,
          hi |-> (Limb - 1) - ((b - a - 1) \div Limb),
          lo |-> (Limb - 1) - ((b - a - 1) % Limb)]

\* the count as one number, for counts below 2^31
CountOf(count) == count.hi * Limb + count.lo

\* take() that asks for more bytes than it hands out
TakeFits_strict(count, data) ==
    /\ count.hi < Limb \div 2
    /\ CountOf(count) < Len(data)

\* nom streaming take(count)(data) succeeds iff data holds count bytes
TakeFits(count, data) ==
    /\ count.hi < Limb \div 2
    /\ CountOf(count) <= Len(data)

NoLen == [overflow |-> FALSE, hi |-> 0, lo |-> 0]

----------------------------------------------------------------------------
(* std::str::from_utf8: the well-formed UTF-8 byte sequences *)

Cont(b) == b >= 128 /\ b <= 191

RECURSIVE Utf8Valid(_)
Utf8Valid(s) ==
    IF s = <<>> THEN TRUE
    ELSE LET b == s[1] IN
      IF b < 128 THEN Utf8Valid(Tail(s))
      ELSE IF b >= 194 /\ b <= 223
        THEN Len(s) >= 2 /\ Cont(s[2]) /\ Utf8Valid(Drop(s, 2))
      ELSE IF b >= 224 /\ b <= 239
        THEN /\ Len(s) >= 3
             /\ Cont(s[2]) /\ Cont(s[3])
             /\ (b = 224 => s[2] >= 160)
             /\ (b = 237 => s[2] <= 159)
             /\ Utf8Valid(Drop(s, 3))
      ELSE IF b >= 240 /\ b <= 244
        THEN /\ Len(s) >= 4
             /\ Cont(s[2]) /\ Cont(s[3]) /\ Cont(s[4])
             /\ (b = 240 => s[2] >= 144)
             /\ (b = 244 => s[2] <= 143)
             /\ Utf8Valid(Drop(s, 4))
      ELSE FALSE

\* from_utf8(&path.to_vec()).unwrap_or_default()
from_utf8_or_default(bytes) == IF Utf8Valid(bytes) THEN bytes ELSE <<>>

----------------------------------------------------------------------------
(* Flag decoder *)

\* the conditionals of match_flags, in the order of the code
FlagTable == <<
    <<0, "None">>,
    <<1, "Created">>,
    <<2, "Removed">>,
    <<4, "InodeMetadataModified">>,
    <<8, "Renamed">>,
    <<16, "Modified">>,
    <<32, "Exchange">>,
    <<64, "FinderInfoModified">>,
    <<128, "DirectoryCreated">>,
    <<256, "PermissionChanged">>,
    <<512, "ExtendedAttributeModified">>,
    <<1024, "ExtenedAttributeRemoved">>,
    <<2048, "DocumentCreated">>,
    <<4096, "DocumentRevision">>,
    <<8192, "UnmountPending">>,
    <<16384, "ItemCloned">>,
    <<65536, "NotificationClone">>,
    <<131072, "ItemTruncated">>,
    <<262144, "DirectoryEvent">>,
    <<524288, "LastHardLinkRemoved">>,
    <<1048576, "IsHardLink">>,
    <<4194304, "IsSymbolicLink">>,
    <<8388608, "IsFile">>,
    <<16777216, "IsDirectory">>,
    <<33554432, "Mount">>,
    <<67108864, "Unmount">>,
    <<536870912, "EndOfTransaction">> >>

\* the test written as (flags & mask) == mask
FlagSet_eq(flags, entry) == BitAnd(flags, entry[1]) = entry[1]

\* one conditional of match_flags: (flags & mask) != 0
FlagSet(flags, entry) == BitAnd(flags, entry[1]) # 0

RECURSIVE match_from(_, _)
match_from(flags, i) ==
    IF i > Len(FlagTable) THEN <<>>
    ELSE (IF FlagSet(flags, FlagTable[i]) THEN <<FlagTable[i][2]>> ELSE <<>>)
         \o match_from(flags, i + 1)

match_flags(flags) == match_from(flags, 1)

RECURSIVE join(_, _)
\* flag_list.join(","): the pieces written, separators included
join(list, sep) ==
    IF Len(list) <= 1 THEN list
    ELSE <<list[1], sep>> \o join(Tail(list), sep)

----------------------------------------------------------------------------
(* Header parser and record decoder *)

\* fsevents_header: three little-endian u32; Err(Incomplete) below 12 bytes
fsevents_header(data) ==
    IF Len(data) < 4 + 4 + 4 THEN [ok |-> FALSE]
    ELSE [ok |-> TRUE,
          signature |-> le_uint(SubSeq(data, 1, 4)),
          padding |-> le_uint(SubSeq(data, 5, 8)),
          stream_size |-> le_uint(SubSeq(data, 9, 12)),
          rest |-> Drop(data, 12)]

\* the two comparisons joined by || : no signature passes
Recognised_or(signature) ==
    ~(signature # DISKLOGGERV1 \/ signature # DISKLOGGERV2)

\* the signature test of fsevents_data: FALSE means break
Recognised(signature) ==
    ~(signature # DISKLOGGERV1 /\ signature # DISKLOGGERV2)

RECURSIVE take_while_nonzero(_)
\* streaming take_while(|b| b != 0): the number of bytes before the first
\* zero byte, or -1 (Incomplete) when the data holds no zero byte
take_while_nonzero(data) ==
    IF data = <<>> THEN -1
    ELSE IF Head(data) = 0 THEN 0
    ELSE LET n == take_while_nonzero(Tail(data)) IN
         IF n = -1 THEN -1 ELSE n + 1

\* path = "/" + text; one leading slash dropped when it starts with "//"
compose_path(text) ==
    LET path == <<Slash>> \o text IN
    IF Len(path) >= 2 /\ path[1] = Slash /\ path[2] = Slash
    THEN Tail(path) ELSE path

\* the node field read under either signature
HasNode_always(s) == TRUE

\* the record carries a node field
HasNode(s) == s # DISKLOGGERV1

NodeSize(s) == IF HasNode(s) THEN 8 ELSE 0

\* get_fsevent_data: one record off the front of data
get_fsevent_data(data, s) ==
    LET plen == take_while_nonzero(data)
        fixed == 1 + 8 + 4
    IN
    IF plen = -1 \/ Len(data) < plen + fixed + NodeSize(s)
    THEN [ok |-> FALSE]
    ELSE LET text == from_utf8_or_default(Take(data, plen))
             id == SubSeq(data, plen + 2, plen + 9)
             flags == SubSeq(data, plen + 10, plen + 13)
             node == SubSeq(data, plen + 14, plen + 13 + NodeSize(s))
         IN [ok |-> TRUE,
             rec |-> [flags |-> join(match_flags(le_uint(flags)), ","),
                      path |-> compose_path(text),
                      node |-> le_uint(node),
                      event_id |-> le_uint(id)],
             rest |-> Drop(data, plen + fixed + NodeSize(s))]

----------------------------------------------------------------------------
(* Size guard and decompression *)

\* a < b on <<high, low>> limbs
LimbLess(a, b) == a[1] < b[1] \/ (a[1] = b[1] /\ a[2] < b[2])

\* get_file_size: TRUE when the size is known and below max_size
get_file_size(file) ==
    IF ~file.stat_ok THEN FALSE ELSE LimbLess(file.size, max_size)

\* decompress: Ok(buffer) for a regular file that opens, reads and inflates
decompress(file) ==
    IF file.opens /\ file.is_file /\ file.gzip_ok
    THEN [ok |-> TRUE, data |-> file.data]
    ELSE [ok |-> FALSE, data |-> <<>>]

----------------------------------------------------------------------------
(* The inputs: journal files built from record templates *)

MaxRecs == 2      \* records in one block
MaxBlocks == 2    \* blocks in one buffer
MaxFiles == 3     \* files in one batch of the small catalogue

\* raw path text, event id, flag word, node id, and the flag text the word
\* stands for
Templates == <<
    [raw |-> <<97>>, event_id |-> 1, flags |-> 11, node |-> 7,
     text |-> <<"Created", ",", "Removed", ",", "Renamed">>],
    [raw |-> <<47, 97>>, event_id |-> 258, flags |-> 16809984, node |-> 0,
     text |-> <<"IsDirectory">>],
    [raw |-> <<>>, event_id |-> 2, flags |-> 0, node |-> 65537,
     text |-> <<>>],
    [raw |-> <<195, 169, 47>>, event_id |-> 3, flags |-> 2097153, node |-> 1,
     text |-> <<"Created">>],
    [raw |-> <<47, 47, 97>>, event_id |-> 4, flags |-> 16, node |-> 2,
     text |-> <<"Modified">>],
    [raw |-> <<97, 255, 98>>, event_id |-> 5, flags |-> 2, node |-> 3,
     text |-> <<"Removed">>] >>

\* n consecutive templates from position start on, wrapping around
Run(start, n) ==
    [i \in 1..n |-> Templates[((start + i - 2) % Len(Templates)) + 1]]

RECURSIVE le_bytes(_, _)
le_bytes(v, n) ==
    IF n = 0 THEN <<>> ELSE <<v % 256>> \o le_bytes(v \div 256, n - 1)

EncodeRecord(t, s) ==
    t.raw \o <<0>> \o le_bytes(t.event_id, 8) \o le_bytes(t.flags, 4)
          \o (IF s = DISKLOGGERV1 THEN <<>> ELSE le_bytes(t.node, 8))

RECURSIVE EncodeRecords(_, _)
EncodeRecords(recs, s) ==
    IF recs = <<>> THEN <<>>
    ELSE EncodeRecord(Head(recs), s) \o EncodeRecords(Tail(recs), s)

\* a block: its header signature, the records written after the header and
\* the stream_size the header declares
EncodeBlock(b) ==
    le_bytes(b.sig, 4) \o le_bytes(779163104, 4)
        \o le_bytes(b.stream_size, 4) \o EncodeRecords(b.recs, b.sig)

RECURSIVE EncodeBlocks(_)
EncodeBlocks(bs) ==
    IF bs = <<>> THEN <<>> ELSE EncodeBlock(Head(bs)) \o EncodeBlocks(Tail(bs))

ExactSize(recs, s) == header_size + Len(EncodeRecords(recs, s))

OtherSig == DISKLOGGERV2 + 1

\* bytes cut off the end of a block by a stream_size that is too small
Cuts == {1, 8, 9, 13, 21}

StreamSizes(recs, s) ==
    {ExactSize(recs, s), ExactSize(recs, s) + 1, 0, header_size - 1}
    \cup {ExactSize(recs, s) - c : c \in {c \in Cuts : c <= Len(EncodeRecords(recs, s))}}

\* well-formed blocks: the k-th block of a buffer holds the templates from
\* position k on, one record more than the block before it (up to MaxRecs)
GoodBlocks(k) ==
    LET recs == Run(k, ((k - 1) % MaxRecs) + 1) IN
    {[sig |-> s, recs |-> recs, stream_size |-> ExactSize(recs, s)] :
        s \in {DISKLOGGERV1, DISKLOGGERV2}}

RECURSIVE GoodPrefixes(_)
\* sequences of exactly k well-formed blocks
GoodPrefixes(k) ==
    IF k = 0 THEN {<<>>}
    ELSE {Append(p, b) : p \in GoodPrefixes(k - 1), b \in GoodBlocks(k)}

\* any block: any signature, any run of records, any declared size
AnyBlocks ==
    UNION {UNION {{[sig |-> s, recs |-> Run(st, n), stream_size |-> z] :
                      z \in StreamSizes(Run(st, n), s)} :
                  s \in {DISKLOGGERV1, DISKLOGGERV2, OtherSig}} :
           st \in 1..Len(Templates), n \in 0..MaxRecs}

Tails == {<<>>, <<68, 76>>}

\* a buffer: well-formed blocks, then either one block of any kind or a tail
BufferDescs ==
    UNION {{[blocks |-> Append(p, b), tail |-> <<>>] : p \in GoodPrefixes(k), b \in AnyBlocks}
           \cup {[blocks |-> p, tail |-> t] : p \in GoodPrefixes(k), t \in Tails} :
           k \in 0..(MaxBlocks - 1)}

Encode(d) == EncodeBlocks(d.blocks) \o d.tail

SmallSize == <<0, 4096>>

\* a journal file that opens and inflates to the buffer d describes
PlainFile(d) ==
    [opens |-> TRUE, is_file |-> TRUE, gzip_ok |-> TRUE, stat_ok |-> TRUE,
     size |-> SmallSize, data |-> Encode(d), desc |-> d]

\* the small catalogue the batches of several files are drawn from
GoodV2 == [blocks |-> <<[sig |-> DISKLOGGERV2, recs |-> Run(1, 1),
                         stream_size |-> ExactSize(Run(1, 1), DISKLOGGERV2)]>>,
           tail |-> <<>>]
GoodV1 == [blocks |-> <<[sig |-> DISKLOGGERV1, recs |-> Run(2, 1),
                         stream_size |-> ExactSize(Run(2, 1), DISKLOGGERV1)]>>,
           tail |-> <<>>]
Truncated == [blocks |-> <<[sig |-> DISKLOGGERV2, recs |-> Run(3, 1),
                            stream_size |-> ExactSize(Run(3, 1), DISKLOGGERV2)],
                           [sig |-> DISKLOGGERV2, recs |-> Run(4, 1),
                            stream_size |-> ExactSize(Run(4, 1), DISKLOGGERV2) - 9]>>,
              tail |-> <<>>]

Catalogue == {
    PlainFile(GoodV2),
    [PlainFile(GoodV1) EXCEPT !.size = <<max_size[1] - 1, Limb - 1>>],
    PlainFile(Truncated),
    [PlainFile(GoodV2) EXCEPT !.is_file = FALSE],
    [PlainFile(GoodV1) EXCEPT !.gzip_ok = FALSE],
    [PlainFile(GoodV1) EXCEPT !.opens = FALSE, !.stat_ok = FALSE],
    [PlainFile(GoodV2) EXCEPT !.size = max_size] }

RECURSIVE Batches(_)
\* the sequences of exactly k files of the catalogue
Batches(k) ==
    IF k = 0 THEN {<<>>}
    ELSE {Append(b, f) : b \in Batches(k - 1), f \in Catalogue}

FileLists ==
    {<<PlainFile(d)>> : d \in BufferDescs}
    \cup UNION {Batches(k) : k \in 0..MaxFiles}

----------------------------------------------------------------------------
(* The program *)

NoFlags == [list |-> <<>>, text |-> <<>>]
NoResult == [kind |-> "none", rest |-> <<>>, events |-> <<>>]
ErrResult == [kind |-> "Err", rest |-> <<>>, events |-> <<>>]
OkResult(rest, events) == [kind |-> "Ok", rest |-> rest, events |-> events]

Idle ==
    /\ file_idx = 0
    /\ fsevents_data = <<>>
    /\ batch_result = "none"
    /\ logged = {}
    /\ decompressed = {}
    /\ input = <<>>
    /\ total_fsevents = <<>>
    /\ block_len = NoLen
    /\ stream_input = <<>>
    /\ sig = 0
    /\ input_results = <<>>
    /\ fsevents_array = <<>>
    /\ used = 0
    /\ result = NoResult
    /\ flags_out = NoFlags

Init ==
    /\ pc = "start"
    /\ \/ dir_ok = TRUE /\ fsevents_files \in FileLists
       \/ dir_ok = FALSE /\ fsevents_files = <<>>
    /\ flags_in = 0
    /\ Idle

\* fsevents_data returns: its locals go out of scope
Return(r) ==
    /\ pc' = "returned"
    /\ result' = r
    /\ input' = <<>>
    /\ total_fsevents' = <<>>
    /\ stream_input' = <<>>
    /\ sig' = 0
    /\ input_results' = <<>>
    /\ fsevents_array' = <<>>

\* parse_fseventsd_data: get_fseventsd()? / get_fseventsd_legacy()?
ListFiles ==
    /\ pc = "start"
    /\ IF dir_ok
       THEN /\ pc' = "loop"
            /\ file_idx' = 1
            /\ UNCHANGED batch_result
       ELSE /\ pc' = "done"
            /\ batch_result' = "Err"
            /\ UNCHANGED file_idx
    /\ UNCHANGED <<dir_ok, fsevents_files, fsevents_data, logged, decompressed,
                   input, total_fsevents, block_len, stream_input, sig,
                   input_results, fsevents_array, used, result, flags_in, flags_out>>

\* parse_fseventsd_data: let decompress_data = decompress(&file)?; and the
\* call of parse_fsevents on it
Decompress ==
    /\ pc = "loop"
    /\ file_idx <= Len(fsevents_files)
    /\ LET d == decompress(fsevents_files[file_idx]) IN
       IF d.ok
       THEN /\ pc' = "header"
            /\ input' = d.data
            /\ decompressed' = decompressed \cup {file_idx}
            /\ UNCHANGED batch_result
       ELSE /\ pc' = "done"
            /\ batch_result' = "Err"
            /\ UNCHANGED <<input, decompressed>>
    /\ UNCHANGED <<dir_ok, fsevents_files, file_idx, fsevents_data, logged,
                   total_fsevents, block_len, stream_input, sig,
                   input_results, fsevents_array, used, result, flags_in, flags_out>>

\* parse_fseventsd_data: the for loop is over, Ok(fsevents_data)
BatchReturn ==
    /\ pc = "loop"
    /\ file_idx > Len(fsevents_files)
    /\ pc' = "done"
    /\ batch_result' = "Ok"
    /\ UNCHANGED <<dir_ok, fsevents_files, file_idx, fsevents_data, logged,
                   decompressed, input, total_fsevents, block_len,
                   stream_input, sig, input_results, fsevents_array, used,
                   result, flags_in, flags_out>>

\* fsevents_data, one turn of its loop up to the call of get_fsevent: the
\* header, the signature test, stream_size - header_size and take()
WalkHeader ==
    /\ pc = "header"
    /\ LET h == fsevents_header(input) IN
       IF ~h.ok
       THEN Return(ErrResult) /\ UNCHANGED block_len
       ELSE IF ~Recognised(h.signature)
       THEN Return(OkResult(input, total_fsevents)) /\ UNCHANGED block_len
       ELSE LET count == WrappingSub(h.stream_size, header_size) IN
            \/ \* overflow checks on: attempt to subtract with overflow
               /\ count.overflow
               /\ pc' = "panic"
               /\ UNCHANGED <<result, input, total_fsevents, stream_input,
                              sig, input_results, fsevents_array, block_len>>
            \/ \* no overflow, or overflow checks off: the count wraps
               /\ block_len' = count
               /\ IF ~TakeFits(count, h.rest)
                  THEN Return(ErrResult)
                  ELSE /\ pc' = "record"
                       /\ sig' = h.signature
                       /\ input_results' = Take(h.rest, CountOf(count))
                       /\ stream_input' = Drop(h.rest, CountOf(count))
                       /\ fsevents_array' = <<>>
                       /\ UNCHANGED <<result, input, total_fsevents>>
    /\ UNCHANGED <<dir_ok, fsevents_files, file_idx, fsevents_data,
                   batch_result, logged, decompressed, used, flags_in, flags_out>>

\* get_fsevent, one turn of its loop; when the block is exhausted, the rest
\* of the turn of fsevents_data's loop (append, input = stream_input, break)
DecodeRecord ==
    /\ pc = "record"
    /\ LET r == get_fsevent_data(input_results, sig) IN
       IF ~r.ok
       THEN Return(ErrResult) /\ UNCHANGED used
       ELSE /\ used' = Len(input_results) - Len(r.rest)
            /\ IF Len(r.rest) # 0
               THEN /\ input_results' = r.rest
                    /\ fsevents_array' = Append(fsevents_array, r.rec)
                    /\ UNCHANGED <<pc, result, input, total_fsevents,
                                   stream_input, sig>>
               ELSE LET total == total_fsevents \o Append(fsevents_array, r.rec) IN
                    IF Len(stream_input) = 0
                    THEN Return(OkResult(stream_input, total))
                    ELSE /\ pc' = "header"
                         /\ input' = stream_input
                         /\ total_fsevents' = total
                         /\ stream_input' = <<>>
                         /\ sig' = 0
                         /\ input_results' = <<>>
                         /\ fsevents_array' = <<>>
                         /\ UNCHANGED result
    /\ UNCHANGED <<dir_ok, fsevents_files, file_idx, fsevents_data,
                   batch_result, logged, decompressed, block_len, flags_in, flags_out>>

\* parse_fseventsd_data: match results { Ok => append, Err => error!(..) }
MatchResults ==
    /\ pc = "returned"
    /\ IF result.kind = "Ok"
       THEN /\ fsevents_data' = fsevents_data \o result.events
            /\ UNCHANGED logged
       ELSE /\ logged' = logged \cup {file_idx}
            /\ UNCHANGED fsevents_data
    /\ file_idx' = file_idx + 1
    /\ result' = NoResult
    /\ block_len' = NoLen
    /\ used' = 0
    /\ pc' = "loop"
    /\ UNCHANGED <<dir_ok, fsevents_files, batch_result, decompressed, input,
                   total_fsevents, stream_input, sig, input_results,
                   fsevents_array, flags_in, flags_out>>

Next ==
    \/ ListFiles
    \/ Decompress
    \/ BatchReturn
    \/ WalkHeader
    \/ DecodeRecord
    \/ MatchResults

Spec == Init /\ [][Next]_vars

----------------------------------------------------------------------------
(* The flag decoder on its own: one call of match_flags on a chosen word *)

MaxBits == 2      \* bits set in a chosen flag word

RECURSIVE Words(_)
\* the words below 2^31 with at most k bits set
Words(k) ==
    IF k = 0 THEN {0}
    ELSE Words(k - 1)
         \cup UNION {{w + 2^b : b \in {c \in 0..30 : (w \div 2^c) % 2 = 0}} :
                     w \in Words(k - 1)}

RECURSIVE SumMasks(_)
SumMasks(i) == IF i = 0 THEN 0 ELSE FlagTable[i][1] + SumMasks(i - 1)

\* few bits, the word of the test, every known bit, every bit
FlagWords ==
    Words(MaxBits) \cup {1 + 2 + 8, SumMasks(Len(FlagTable)), 2^30 + (2^30 - 1)}

InitFlags ==
    /\ pc = "flags"
    /\ flags_in \in FlagWords
    /\ dir_ok = TRUE
    /\ fsevents_files = <<>>
    /\ Idle

\* get_fsevent_data: match_flags(&fsevent_flags) and flag_list.join(",")
MatchFlags ==
    /\ pc = "flags"
    /\ pc' = "flagged"
    /\ flags_out' = [list |-> match_flags(flags_in),
                     text |-> join(match_flags(flags_in), ",")]
    /\ UNCHANGED <<dir_ok, fsevents_files, file_idx, fsevents_data,
                   batch_result, logged, decompressed, input, total_fsevents,
                   block_len, stream_input, sig, input_results,
                   fsevents_array, used, result, flags_in>>

NextFlags == MatchFlags

SpecFlags == InitFlags /\ [][NextFlags]_vars

----------------------------------------------------------------------------
(* What the claims speak of *)

\* the table entries that stand for a bit, and whether a word has the bit
KnownEntries == {i \in 1..Len(FlagTable) : FlagTable[i][1] > 0}
BitOn(word, mask) == (word \div mask) % 2 = 1
EntryOf(name) == CHOOSE i \in 1..Len(FlagTable) : FlagTable[i][2] = name

\* C10: match_flags returns exactly the names of the known bits set in the
\* word, each once and in increasing bit value, and the flag text is these
\* names with a comma between neighbours; a word without known bits gives
\* an empty list
C10_FlagsExactInBitOrder ==
    pc = "flagged" =>
        LET out == flags_out.list
            txt == flags_out.text
        IN /\ \A k \in 1..Len(out) :
                  \E i \in KnownEntries :
                      FlagTable[i][2] = out[k] /\ BitOn(flags_in, FlagTable[i][1])
           /\ \A i \in KnownEntries :
                  BitOn(flags_in, FlagTable[i][1])
                      => \E k \in 1..Len(out) : out[k] = FlagTable[i][2]
           /\ \A k \in 1..(Len(out) - 1) :
                  FlagTable[EntryOf(out[k])][1] < FlagTable[EntryOf(out[k + 1])][1]
           /\ Len(txt) = (IF out = <<>> THEN 0 ELSE 2 * Len(out) - 1)
           /\ \A k \in 1..Len(txt) :
                  txt[k] = (IF k % 2 = 1 THEN out[(k + 1) \div 2] ELSE ",")

\* the word of the test has been decoded to Created, Removed, Renamed
C10_Witness ==
    /\ pc = "flagged"
    /\ flags_in = 11
    /\ flags_out.list = <<"Created", "Removed", "Renamed">>
    /\ flags_out.text = <<"Created", ",", "Removed", ",", "Renamed">>

----------------------------------------------------------------------------
(* The file being walked and what its bytes were built from *)

Walking == pc \in {"header", "record", "returned"}
CurFile == fsevents_files[file_idx]
CurDesc == CurFile.desc

\* a raw path text as the encoder means it: valid UTF-8 and at most one
\* leading slash; the path such a text names
WellFormedRaw(raw) ==
    /\ Utf8Valid(raw)
    /\ ~(Len(raw) >= 2 /\ raw[1] = Slash /\ raw[2] = Slash)
Canon(raw) == IF raw # <<>> /\ raw[1] = Slash THEN raw ELSE <<Slash>> \o raw

\* the record a well-formed template encodes, under the newer layout
Encoded(t) ==
    [flags |-> t.text, path |-> Canon(t.raw), node |-> t.node,
     event_id |-> t.event_id]

RecordLen(t, s) == Len(EncodeRecord(t, s))

\* a block whose header tells the truth about the records that follow it
GoodBlock(b) ==
    /\ b.sig \in {DISKLOGGERV1, DISKLOGGERV2}
    /\ b.recs # <<>>
    /\ b.stream_size = ExactSize(b.recs, b.sig)

RECURSIVE AllTemplates(_)
\* the templates of a sequence of blocks, in buffer order, each with the
\* signature of its block
AllTemplates(bs) ==
    IF bs = <<>> THEN <<>>
    ELSE [i \in 1..Len(Head(bs).recs) |->
              [t |-> Head(bs).recs[i], sig |-> Head(bs).sig]]
         \o AllTemplates(Tail(bs))

EventIds(events) == [i \in 1..Len(events) |-> events[i].event_id]
TemplateIds(ts) == [i \in 1..Len(ts) |-> ts[i].t.event_id]

\* C1: one DLS2 header with stream_size = 12 + N followed by exactly N bytes
\* of one or more complete well-formed records decodes, without error, to
\* exactly the encoded records in their order, and nothing is left over
C1_ExactBlockRoundTrip ==
    (/\ pc = "returned"
     /\ Len(CurDesc.blocks) = 1
     /\ CurDesc.tail = <<>>
     /\ GoodBlock(CurDesc.blocks[1])
     /\ CurDesc.blocks[1].sig = DISKLOGGERV2
     /\ \A i \in 1..Len(CurDesc.blocks[1].recs) :
            WellFormedRaw(CurDesc.blocks[1].recs[i].raw))
    => /\ result.kind = "Ok"
       /\ result.rest = <<>>
       /\ result.events =
              [i \in 1..Len(CurDesc.blocks[1].recs) |->
                  Encoded(CurDesc.blocks[1].recs[i])]

\* a DLS2 block of two well-formed records has been decoded
C1_Witness ==
    /\ pc = "returned"
    /\ CurDesc.tail = <<>>
    /\ CurDesc.blocks = <<[sig |-> DISKLOGGERV2, recs |-> Run(1, 2),
                           stream_size |-> ExactSize(Run(1, 2), DISKLOGGERV2)]>>
    /\ result.kind = "Ok"
    /\ Len(result.events) = 2
    /\ result.rest = <<>>

\* C3: a header whose signature is neither DLS1 nor DLS2 ends the walk with
\* success: the result holds the records of all earlier blocks, in order,
\* nothing of what follows the header is decoded, whatever its stream_size
C3_UnknownSignatureStops ==
    (/\ pc = "returned"
     /\ CurDesc.blocks # <<>>
     /\ CurDesc.blocks[Len(CurDesc.blocks)].sig = OtherSig)
    => LET n == Len(CurDesc.blocks)
           before == AllTemplates(Take(CurDesc.blocks, n - 1))
       IN /\ result.kind = "Ok"
          /\ EventIds(result.events) = TemplateIds(before)
          /\ result.rest = EncodeBlock(CurDesc.blocks[n]) \o CurDesc.tail

\* after a block of one record, a header of unknown signature that declares
\* stream_size 0 and is followed by record bytes has ended the walk
C3_Witness ==
    /\ pc = "returned"
    /\ Len(CurDesc.blocks) = 2
    /\ CurDesc.blocks[2].sig = OtherSig
    /\ CurDesc.blocks[2].stream_size = 0
    /\ CurDesc.blocks[2].recs # <<>>
    /\ result.kind = "Ok"
    /\ Len(result.events) = 1

----------------------------------------------------------------------------
(* Batches *)

\* what parse_fseventsd_data hands back: the records of Ok(..), none on Err
Output == IF batch_result = "Ok" THEN fsevents_data ELSE <<>>

\* the ends of the records of a block, counted from the end of its header
Boundaries(b) ==
    {Len(EncodeRecords(Take(b.recs, k), b.sig)) : k \in 0..Len(b.recs)}

\* the declared stream_size ends the block inside a record
MidRecord(b) ==
    /\ b.sig \in {DISKLOGGERV1, DISKLOGGERV2}
    /\ b.stream_size >= header_size
    /\ b.stream_size - header_size < Len(EncodeRecords(b.recs, b.sig))
    /\ (b.stream_size - header_size) \notin Boundaries(b)

TruncFile(f) == \E k \in 1..Len(f.desc.blocks) : MidRecord(f.desc.blocks[k])

\* a file that inflates to well-formed blocks and nothing else
GoodFile(f) ==
    /\ decompress(f).ok
    /\ f.desc.tail = <<>>
    /\ \A k \in 1..Len(f.desc.blocks) : GoodBlock(f.desc.blocks[k])

\* a file whose contribution to a batch is known from how it was built:
\* all of its records, or none (not decompressed, or a parse error)
Simple(f) == GoodFile(f) \/ ~decompress(f).ok \/ TruncFile(f)
SimpleBatch == \A i \in 1..Len(fsevents_files) : Simple(fsevents_files[i])

RECURSIVE Contributions(_)
\* the event ids of the records of the good files of a batch, in order
Contributions(fs) ==
    IF fs = <<>> THEN <<>>
    ELSE (IF GoodFile(Head(fs))
          THEN TemplateIds(AllTemplates(Head(fs).desc.blocks)) ELSE <<>>)
         \o Contributions(Tail(fs))

\* C2: a file with a block that its stream_size ends inside a record is a
\* parse error as a whole and none of its records reach the output of
\* parse_fseventsd_data, while every other file of the batch still
\* contributes all of its records
C2_TruncatedFileIsolated ==
    /\ (pc = "returned" /\ TruncFile(CurFile)) => result.kind = "Err"
    /\ (/\ pc = "done"
        /\ dir_ok
        /\ SimpleBatch
        /\ \E i \in 1..Len(fsevents_files) : TruncFile(fsevents_files[i]))
       => EventIds(Output) = Contributions(fsevents_files)

\* the same with every file of the batch walked and the batch returned Ok:
\* the isolation of a parse error as the match of parse_fseventsd_data
\* provides it
ParseErrorIsolated ==
    /\ (pc = "returned" /\ TruncFile(CurFile)) => result.kind = "Err"
    /\ (/\ pc = "done"
        /\ batch_result = "Ok"
        /\ SimpleBatch
        /\ \E i \in 1..Len(fsevents_files) : TruncFile(fsevents_files[i]))
       => EventIds(Output) = Contributions(fsevents_files)

\* C4: a recognised header that declares stream_size < 12 is a parse error
\* returned by fsevents_data, never a wrapped block length, never an abort
C4_UnderflowGuarded ==
    /\ pc # "panic"
    /\ ~block_len.overflow
    /\ (/\ pc = "returned"
        /\ CurDesc.blocks # <<>>
        /\ CurDesc.blocks[Len(CurDesc.blocks)].sig \in {DISKLOGGERV1, DISKLOGGERV2}
        /\ CurDesc.blocks[Len(CurDesc.blocks)].stream_size < header_size)
       => result.kind = "Err"

\* C5: an empty buffer decodes to success with no records
C5_EmptyBufferOk ==
    (pc = "returned" /\ CurFile.data = <<>>)
    => (result.kind = "Ok" /\ result.events = <<>>)

\* C6: a file that cannot be decompressed is skipped and nothing else: the
\* batch returns Ok, keeps the records collected before it and still
\* decompresses and decodes every later file
C6_IoErrorSkipsOnlyFile ==
    (pc = "done" /\ dir_ok)
    => /\ batch_result = "Ok"
       /\ \A i \in 1..Len(fsevents_files) :
              decompress(fsevents_files[i]).ok => i \in decompressed
       /\ SimpleBatch => EventIds(Output) = Contributions(fsevents_files)

\* C7: a file at or above the 2 GiB ceiling is never decompressed
C7_SizeGuardConsulted ==
    \A i \in decompressed : get_file_size(fsevents_files[i])

SinglySlashed(path) ==
    /\ path # <<>>
    /\ path[1] = Slash
    /\ Len(path) >= 2 => path[2] # Slash

\* C9: every stored path is non-empty and begins with exactly one slash
C9_SingleLeadingSlash ==
    LET all == fsevents_array \o total_fsevents \o result.events \o fsevents_data
    IN \A k \in 1..Len(all) : SinglySlashed(all[k].path)

RECURSIVE CountRecs(_)
CountRecs(bs) ==
    IF bs = <<>> THEN 0 ELSE Len(Head(bs).recs) + CountRecs(Tail(bs))

\* the block get_fsevent is decoding, found by the records walked before it
CurBlock ==
    CurDesc.blocks[CHOOSE b \in 1..Len(CurDesc.blocks) :
                       CountRecs(Take(CurDesc.blocks, b - 1)) = Len(total_fsevents)]

ExpectedNode(x) == IF x.sig = DISKLOGGERV1 THEN 0 ELSE x.t.node

\* C8: the layout of a record is that of the header which opened its block:
\* a record of a DLS1 block ends with the flag word and has node 0, a record
\* of a DLS2 block takes 8 bytes more and has their value as node, block by
\* block in a buffer of blocks with different signatures
C8_LayoutFollowsBlock ==
    /\ (pc = "record" /\ fsevents_array # <<>>)
       => LET j == Len(fsevents_array)
              t == CurBlock.recs[j]
          IN /\ sig = CurBlock.sig
             /\ used = Len(t.raw) + 1 + 8 + 4 + (IF sig = DISKLOGGERV1 THEN 0 ELSE 8)
             /\ fsevents_array[j].node = (IF sig = DISKLOGGERV1 THEN 0 ELSE t.node)
    /\ (pc = "returned" /\ GoodFile(CurFile) /\ CurDesc.blocks # <<>>)
       => LET ts == AllTemplates(CurDesc.blocks) IN
          /\ result.kind = "Ok"
          /\ [i \in 1..Len(result.events) |-> result.events[i].node]
                 = [i \in 1..Len(ts) |-> ExpectedNode(ts[i])]

\* a DLS1 block and then a DLS2 block have been decoded: node 0 for the
\* record of the first, whose template names node 7, the encoded node for
\* the second
C8_Witness ==
    /\ pc = "returned"
    /\ Len(CurDesc.blocks) = 2
    /\ GoodFile(CurFile)
    /\ CurDesc.blocks[1].sig = DISKLOGGERV1
    /\ CurDesc.blocks[1].recs[1].node = 7
    /\ CurDesc.blocks[2].sig = DISKLOGGERV2
    /\ Len(result.events) = 3
    /\ result.events[1].node = 0
    /\ result.events[3].node = 65537

----------------------------------------------------------------------------
(* Empty blocks and paths that are not UTF-8 *)

\* a recognised header that declares stream_size = 12: no record bytes
EmptyBlock(b) ==
    /\ b.sig \in {DISKLOGGERV1, DISKLOGGERV2}
    /\ b.recs = <<>>
    /\ b.stream_size = header_size

\* C11: a block whose header declares stream_size 12 decodes to zero
\* records without error: no record decode is tried on the exhausted block,
\* and the walk stops with success when the buffer ends there
C11_EmptyBlockOk ==
    /\ pc = "record" => input_results # <<>>
    /\ (/\ pc = "returned"
        /\ CurDesc.blocks # <<>>
        /\ CurDesc.tail = <<>>
        /\ EmptyBlock(CurDesc.blocks[Len(CurDesc.blocks)]))
       => LET before == Take(CurDesc.blocks, Len(CurDesc.blocks) - 1) IN
          /\ result.kind = "Ok"
          /\ result.rest = <<>>
          /\ EventIds(result.events) = TemplateIds(AllTemplates(before))

\* the length of the validly encoded character a text starts with, 0 when
\* it starts with none
CharLen(s) ==
    IF \E n \in 1..4 : n <= Len(s) /\ Utf8Valid(Take(s, n))
    THEN CHOOSE n \in 1..4 : n <= Len(s) /\ Utf8Valid(Take(s, n))
                              /\ \A m \in 1..(n - 1) : ~Utf8Valid(Take(s, m))
    ELSE 0

RECURSIVE ValidChars(_)
\* the validly encoded characters of a text, the other bytes left out
ValidChars(s) ==
    IF s = <<>> THEN <<>>
    ELSE IF CharLen(s) = 0 THEN ValidChars(Tail(s))
    ELSE Take(s, CharLen(s)) \o ValidChars(Drop(s, CharLen(s)))

RECURSIVE IsSubseq(_, _)
\* a is b with some elements left out
IsSubseq(a, b) ==
    IF a = <<>> THEN TRUE
    ELSE IF b = <<>> THEN FALSE
    ELSE IF Head(a) = Head(b) THEN IsSubseq(Tail(a), Tail(b))
    ELSE IsSubseq(a, Tail(b))

\* the file walked is made of well-formed blocks and record i of it has a
\* raw path that is not valid UTF-8
BadPathAt(i) ==
    /\ GoodFile(CurFile)
    /\ i \in 1..Len(AllTemplates(CurDesc.blocks))
    /\ ~Utf8Valid(AllTemplates(CurDesc.blocks)[i].t.raw)

\* C12: a record whose path bytes are not valid UTF-8 is decoded lossily and
\* never as an error: the record is emitted with its event id, flags and
\* node, the records after it and the file decode, and the validly encoded
\* characters of its path are kept in the stored path
C12_InvalidUtf8Lossy ==
    (pc = "returned" /\ \E i \in 1..CountRecs(CurDesc.blocks) : BadPathAt(i))
    => LET ts == AllTemplates(CurDesc.blocks) IN
       /\ result.kind = "Ok"
       /\ Len(result.events) = Len(ts)
       /\ \A i \in 1..Len(ts) :
              /\ result.events[i].event_id = ts[i].t.event_id
              /\ result.events[i].flags = ts[i].t.text
              /\ result.events[i].node = ExpectedNode(ts[i])
              /\ IsSubseq(ValidChars(ts[i].t.raw), result.events[i].path)

\* the same without the last line: a path that is not valid UTF-8 is no
\* error, and costs neither its record nor the ones after it
InvalidUtf8NoError ==
    (pc = "returned" /\ \E i \in 1..CountRecs(CurDesc.blocks) : BadPathAt(i))
    => LET ts == AllTemplates(CurDesc.blocks) IN
       /\ result.kind = "Ok"
       /\ Len(result.events) = Len(ts)
       /\ \A i \in 1..Len(ts) :
              /\ result.events[i].event_id = ts[i].t.event_id
              /\ result.events[i].flags = ts[i].t.text
              /\ result.events[i].node = ExpectedNode(ts[i])
              /\ result.events[i].path # <<>>

====
